---- MODULE Spec2Model ----
(***************************************************************************)
(* Model of the native facade in src/Native/library.cpp: the allocation    *)
(* helpers, sf_allocate_device_config and sf_get_devices, over an explicit *)
(* heap of blocks, together with the engine call sf_get_devices makes      *)
(* (ma_context_get_devices) and a caller that releases what it was given.  *)
(***************************************************************************)
EXTENDS Integers, Sequences, FiniteSets, TLC

\* ------------------------------------------------------------------ bounds
MaxDevices == 2      \* devices the host reports per direction
MaxFormats == 2      \* native data formats a device reports
HeapSize == 7        \* successful allocations the process can make in all
MaxCalls == 2        \* sf_get_devices calls the caller makes
MaxChannels == 2     \* channel counts passed to sf_allocate_device_config
TotalFrames == 10    \* length of the decoded stream, in output frames
OutputSampleRate == 3 \* the decoder's output rate, frames per second
TicksPerSecond == 4  \* seek times are multiples of 1/TicksPerSecond s
MaxTicks == 16       \* the longest seek time, in ticks

\* library.h:21  char name[MA_MAX_DEVICE_NAME_LENGTH + 1]
MA_MAX_DEVICE_NAME_LENGTH == 255

\* ---------------------------------------------------------------- pointers
\* A pointer is a block address and an element offset into the block.
Ptr(b, o) == [blk |-> b, off |-> o]
NULL == Ptr(0, 0)
\* A non-null address that belongs to no block (what unassigned storage or a
\* caller's unset variable may hold).
WILD == Ptr(-1, 0)

\* `Bind(v, F)` is F(v) with v computed once: the result of one step of a
\* function, named for the steps that follow it.
Bind(v, F(_)) == CHOOSE y \in {F(x) : x \in {v}} : TRUE

MA_SUCCESS == "MA_SUCCESS"
MA_ERROR == "MA_ERROR"
MA_OUT_OF_MEMORY == "MA_OUT_OF_MEMORY"

VARIABLES
    heap,                   \* Seq of blocks [owner, live, data]; address = index
    avail,                  \* allocations that will still succeed
    ctx,                    \* the ma_context: its device-info buffer and counts
    ppPlaybackDeviceInfos,  \* the caller's four output variables
    ppCaptureDeviceInfos,
    pPlaybackDeviceCount,
    pCaptureDeviceCount,
    result,                 \* what the last sf_get_devices returned
    crashed,                \* the process was killed by a trapped fault
    call,                   \* record of the last sf_get_devices call (history)
    released,               \* which of the two returned arrays the caller freed
    snapshots,              \* returned arrays the caller still holds, with
                            \* the device ids read through them at return
    calls,                  \* sf_get_devices calls made so far
    config,                 \* the device-config handle the caller holds
    cfgCall,                \* the last sf_allocate_device_config call (history)
    decoder,                \* a decoder: cursor, totalFrames, outputSampleRate
    seekResult,             \* what the last seek returned
    seek                    \* the last seek call (history)

vars == <<heap, avail, ctx, ppPlaybackDeviceInfos, ppCaptureDeviceInfos,
          pPlaybackDeviceCount, pCaptureDeviceCount, result, crashed, call,
          released, snapshots, calls, config, cfgCall, decoder, seekResult,
          seek>>

enumVars == <<ctx, ppPlaybackDeviceInfos, ppCaptureDeviceInfos,
              pPlaybackDeviceCount, pCaptureDeviceCount, result, crashed,
              call, released, snapshots, calls>>
cfgVars == <<config, cfgCall>>
decVars == <<decoder, seekResult, seek>>

\* ------------------------------------------------------------------ strings
\* Index of the first NUL byte of a buffer (Len + 1 when there is none).
FirstNul(s) ==
    LET Z == {k \in 1..Len(s) : s[k] = 0}
    IN IF Z = {} THEN Len(s) + 1 ELSE CHOOSE k \in Z : \A j \in Z : k <= j

\* The C string a buffer holds: the bytes before its first NUL.
CStr(s) == SubSeq(s, 1, FirstNul(s) - 1)

\* n NUL bytes.
Nuls(n) == [k \in 1..n |-> 0]

\* strncpy(dst, src, n): exactly n bytes are written, starting at dst[0]: the
\* bytes of src before its NUL (at most n of them), then NUL padding.  Bytes
\* of dst past the n-th are kept; a write past dst's end extends the
\* sequence, so an overflow shows as a longer buffer.
strncpy(dst, src, n) ==
    Bind(FirstNul(src), LAMBDA z :
        Bind(IF z - 1 < n THEN z - 1 ELSE n, LAMBDA c :
            SubSeq(src, 1, c) \o Nuls(n - c) \o SubSeq(dst, n + 1, Len(dst))))

\* -------------------------------------------------------- the host's devices
\* What the engine finds when it enumerates: np playback and nc capture
\* devices.  Every device differs from every other by direction and
\* position, so a misplaced or crossed-over entry is visible.
HostTopologies == [np : 0..MaxDevices, nc : 0..MaxDevices]

DirBit(dir) == IF dir = "playback" THEN 0 ELSE 1

\* Lengths of the device names the host uses (short, empty, and the longest
\* the engine's name buffer can hold with its terminator).
NameLens == <<3, MA_MAX_DEVICE_NAME_LENGTH, 0, MA_MAX_DEVICE_NAME_LENGTH - 1>>

NameLenOf(dir, i) == NameLens[((DirBit(dir) * 2 + (i - 1)) % Len(NameLens)) + 1]

\* An engine name buffer: len non-NUL bytes, then NUL to the end.
NameBuffer(len, seed) ==
    [k \in 1..(MA_MAX_DEVICE_NAME_LENGTH + 1) |->
        IF k <= len THEN 1 + ((k + seed) % 200) ELSE 0]

EngineFormat(dir, i, j) ==
    [format |-> 1 + ((i + j + DirBit(dir)) % 5), channels |-> j,
     sampleRate |-> IF dir = "playback" THEN 48000 ELSE 44100 + i,
     flags |-> (i + j) % 2]

\* The engine's ma_device_info of the i-th device of a direction.
EngineDevice(dir, i) ==
    LET n == (2 * i + DirBit(dir)) % (MaxFormats + 1)
    IN [id |-> 100 * (1 + DirBit(dir)) + i,
        name |-> NameBuffer(NameLenOf(dir, i), i + 3 * DirBit(dir)),
        isDefault |-> (i = 1 + DirBit(dir)),
        nativeDataFormatCount |-> n,
        nativeDataFormats |-> [j \in 1..n |-> EngineFormat(dir, i, j)]]

\* Everything the host can report, tabulated once.
HostDevices ==
    [dir \in {"playback", "capture"} |->
        [i \in 1..MaxDevices |-> EngineDevice(dir, i)]]

EngineDevices(dir, n) == SubSeq(HostDevices[dir], 1, n)

\* -------------------------------------------------------------------- heap
\* The machine state a call threads through its steps: the heap, the
\* allocations that will still succeed, and the history of the call (the
\* faults it executed, the blocks it allocated, the pointers it passed to
\* free, whether one of its allocations failed).
Machine(h, a) ==
    [heap |-> h, avail |-> a, ub |-> {}, allocd |-> {}, freed |-> <<>>,
     failed |-> FALSE]

IsBlock(m, p) == p.blk \in 1..Len(m.heap)
IsLive(m, p) == IsBlock(m, p) /\ m.heap[p.blk].live

\* ma_malloc: a fresh block holding `data` (what the caller of malloc then
\* writes into it), or NULL when memory is exhausted.
MallocAs(m, owner, data) ==
    IF m.avail = 0
    THEN [m |-> m, p |-> NULL]
    ELSE [m |-> [m EXCEPT !.heap = Append(@, [owner |-> owner, live |-> TRUE,
                                              data |-> data]),
                          !.avail = @ - 1],
          p |-> Ptr(Len(m.heap) + 1, 0)]

\* ma_free: NULL is ignored; the start of a live block releases it; anything
\* else (an address inside a block, a block already released, an address of
\* no block) is undefined and is recorded as a fault.
FreeBlock(m, p) ==
    IF p = NULL THEN m
    ELSE IF ~IsBlock(m, p) \/ p.off # 0
         THEN [m EXCEPT !.ub = @ \cup {"invalid_free"}]
    ELSE IF ~m.heap[p.blk].live
         THEN [m EXCEPT !.ub = @ \cup {"double_free"}]
    ELSE [m EXCEPT !.heap[p.blk].live = FALSE, !.heap[p.blk].data = <<>>]

\* sf_create / ma_malloc as the facade calls it.
ma_malloc(m, data) ==
    Bind(MallocAs(m, "facade", data), LAMBDA r :
        IF r.p = NULL
        THEN [m |-> [m EXCEPT !.failed = TRUE], p |-> NULL]
        ELSE [m |-> [r.m EXCEPT !.allocd = @ \cup {r.p.blk}], p |-> r.p])

\* sf_free(ptr): ma_free(ptr, nullptr).
sf_free(m, p) ==
    Bind([m EXCEPT !.freed = Append(@, p)], LAMBDA m1 : FreeBlock(m1, p))

\* ------------------------------------------------- ma_context_get_devices
\* The engine call of sf_get_devices.  The context owns one buffer holding
\* the playback infos followed by the capture infos; each enumeration
\* rewrites it (reallocating it when it is too small) and hands out pointers
\* into it.  On failure the outputs are NULL and 0.
EngineWrite(m, c, topo) ==
    [m EXCEPT !.heap[c.pDeviceInfos.blk].data =
                  EngineDevices("playback", topo.np)
                  \o EngineDevices("capture", topo.nc),
              !.ub = IF IsLive(m, c.pDeviceInfos) THEN @
                     ELSE @ \cup {"use_after_free"}]

ma_context_get_devices(m, c, topo, ok) ==
    LET total == topo.np + topo.nc
        c0 == [c EXCEPT !.playbackDeviceInfoCount = 0,
                        !.captureDeviceInfoCount = 0]
        failure(r, mm) ==
            [result |-> r, m |-> mm, ctx |-> c0, pPlayback |-> NULL,
             pCapture |-> NULL, playbackCount |-> 0, captureCount |-> 0]
        done(mm, cc) ==
            [result |-> MA_SUCCESS, m |-> mm,
             ctx |-> [cc EXCEPT !.playbackDeviceInfoCount = topo.np,
                                !.captureDeviceInfoCount = topo.nc],
             pPlayback |-> cc.pDeviceInfos,
             pCapture |-> IF topo.np > 0
                          THEN Ptr(cc.pDeviceInfos.blk, cc.pDeviceInfos.off + topo.np)
                          ELSE cc.pDeviceInfos,
             playbackCount |-> topo.np, captureCount |-> topo.nc]
    IN IF ~ok THEN failure(MA_ERROR, m)
       ELSE IF total > c.deviceInfoCapacity
       THEN Bind(MallocAs(m, "context", <<>>), LAMBDA r :
                IF r.p = NULL THEN failure(MA_OUT_OF_MEMORY, m)
                ELSE Bind([c0 EXCEPT !.pDeviceInfos = r.p,
                                     !.deviceInfoCapacity = total], LAMBDA c1 :
                     Bind(FreeBlock(r.m, c.pDeviceInfos), LAMBDA m1 :
                     Bind(EngineWrite(m1, c1, topo), LAMBDA m2 :
                          done(m2, c1)))))
       ELSE IF total = 0 THEN done(m, c0)
       ELSE Bind(EngineWrite(m, c0, topo), LAMBDA m2 : done(m2, c0))

\* --------------------------------------------------------- sf_get_devices
\* What unassigned storage holds is indeterminate.  Three outcomes are
\* modelled: it reads as zero, it reads as junk (non-zero bytes, a non-null
\* address of no block), or ("stale") it reads as what the same stack slot
\* held at the end of the previous loop iteration.
IndetChoices == {"zero", "junk", "stale"}

ZeroInfo ==
    [id |-> NULL, name |-> [k \in 1..(MA_MAX_DEVICE_NAME_LENGTH + 1) |-> 0],
     isDefault |-> FALSE, nativeDataFormatCount |-> 0,
     nativeDataFormats |-> NULL]

JunkInfo ==
    [id |-> WILD, name |-> [k \in 1..(MA_MAX_DEVICE_NAME_LENGTH + 1) |-> 170],
     isDefault |-> TRUE, nativeDataFormatCount |-> 0,
     nativeDataFormats |-> WILD]

\* `sf_device_info deviceInfo;` at the top of a loop body.
UninitInfo(indet, stale) ==
    IF indet = "zero" THEN ZeroInfo
    ELSE IF indet = "junk" THEN JunkInfo
    ELSE stale

\* The bytes of a freshly allocated outer array of n entries.
UninitArray(n) == [k \in 1..n |-> JunkInfo]

\* The copy without the terminator written after it.
CopyName_Unterminated(dst, src) ==
    strncpy(dst, src, MA_MAX_DEVICE_NAME_LENGTH)

\* strncpy(deviceInfo.name, pInfo->name, MA_MAX_DEVICE_NAME_LENGTH);
\* deviceInfo.name[MA_MAX_DEVICE_NAME_LENGTH] = '\0';
CopyName(dst, src) ==
    [strncpy(dst, src, MA_MAX_DEVICE_NAME_LENGTH)
        EXCEPT ![MA_MAX_DEVICE_NAME_LENGTH + 1] = 0]

\* The inner loop: the four fields of each native format, one by one.
CopyNativeDataFormats(src) ==
    [iFormat \in 1..src.nativeDataFormatCount |->
        [format |-> src.nativeDataFormats[iFormat].format,
         channels |-> src.nativeDataFormats[iFormat].channels,
         sampleRate |-> src.nativeDataFormats[iFormat].sampleRate,
         flags |-> src.nativeDataFormats[iFormat].flags]]

\* deviceInfo.nativeDataFormats after the `if (nativeDataFormatCount > 0)`
\* block: the result of ma_malloc, used without a check (a NULL result is
\* written through by the copy loop), and left as it was when the count is 0.
AllocNativeDataFormats(m, d, src) ==
    IF d.nativeDataFormatCount > 0
    THEN Bind(ma_malloc(m, CopyNativeDataFormats(src)), LAMBDA r :
            [m |-> IF r.p = NULL
                   THEN [r.m EXCEPT !.ub = @ \cup {"null_write"}]
                   ELSE r.m,
             d |-> [d EXCEPT !.nativeDataFormats = r.p]])
    ELSE [m |-> m, d |-> d]

\* One iteration of a device loop (iDevice counts from 0): build the local
\* deviceInfo from pDevices[iDevice] and store it in infos[iDevice].
DeviceLoopBody(m, pDevices, infos, iDevice, local) ==
    Bind(m.heap[pDevices.blk].data[pDevices.off + iDevice + 1], LAMBDA src :
    Bind([local EXCEPT !.id = Ptr(pDevices.blk, pDevices.off + iDevice),
                       !.name = CopyName(@, src.name),
                       !.isDefault = src.isDefault,
                       !.nativeDataFormatCount = src.nativeDataFormatCount],
         LAMBDA d :
    Bind(AllocNativeDataFormats(m, d, src), LAMBDA r :
        [m |-> IF infos # NULL
               THEN [r.m EXCEPT !.heap[infos.blk].data[iDevice + 1] = r.d]
               ELSE r.m,
         stale |-> r.d])))

RECURSIVE DeviceLoop(_, _, _, _, _, _, _)
DeviceLoop(m, pDevices, count, infos, iDevice, stale, indet) ==
    IF iDevice < count
    THEN Bind(DeviceLoopBody(m, pDevices, infos, iDevice,
                             UninitInfo(indet, stale)), LAMBDA b :
            DeviceLoop(b.m, pDevices, count, infos, iDevice + 1, b.stale, indet))
    ELSE [m |-> m, stale |-> stale]

\* The whole call.  `out` holds the caller's four output variables; the
\* result is the return value, the outputs, the context and the machine.
\* The two failure paths: what is passed to sf_free, in order.
RECURSIVE FreeAll(_, _)
FreeAll(m, ptrs) ==
    IF ptrs = <<>> THEN m
    ELSE Bind(sf_free(m, Head(ptrs)), LAMBDA m1 : FreeAll(m1, Tail(ptrs)))

sf_get_devices(m0, c, out, topo, ok, indet) ==
    Bind(ma_context_get_devices(m0, c, topo, ok), LAMBDA e :
    Bind([out EXCEPT !.pPlaybackDeviceCount = e.playbackCount,
                     !.pCaptureDeviceCount = e.captureCount], LAMBDA out1 :
    IF e.result # MA_SUCCESS
       \/ (out1.pPlaybackDeviceCount = 0 /\ out1.pCaptureDeviceCount = 0)
    THEN [result |-> e.result, m |-> e.m, out |-> out1, ctx |-> e.ctx,
          wrote |-> FALSE]
    ELSE
    Bind(IF out1.pPlaybackDeviceCount > 0
         THEN ma_malloc(e.m, UninitArray(out1.pPlaybackDeviceCount))
         ELSE [m |-> e.m, p |-> NULL], LAMBDA a1 :
    IF out1.pPlaybackDeviceCount > 0 /\ a1.p = NULL
    THEN [result |-> MA_OUT_OF_MEMORY,
          m |-> FreeAll(a1.m, <<e.pPlayback, e.pCapture>>),
          out |-> out1, ctx |-> e.ctx, wrote |-> FALSE]
    ELSE
    Bind(IF out1.pCaptureDeviceCount > 0
         THEN ma_malloc(a1.m, UninitArray(out1.pCaptureDeviceCount))
         ELSE [m |-> a1.m, p |-> NULL], LAMBDA a2 :
    IF out1.pCaptureDeviceCount > 0 /\ a2.p = NULL
    THEN [result |-> MA_OUT_OF_MEMORY,
          m |-> FreeAll(a2.m, <<e.pPlayback, e.pCapture, a1.p>>),
          out |-> out1, ctx |-> e.ctx, wrote |-> FALSE]
    ELSE
    Bind(DeviceLoop(a2.m, e.pPlayback, out1.pPlaybackDeviceCount, a1.p, 0,
                    JunkInfo, indet), LAMBDA l1 :
    Bind(DeviceLoop(l1.m, e.pCapture, out1.pCaptureDeviceCount, a2.p, 0,
                    l1.stale, indet), LAMBDA l2 :
        [result |-> e.result, m |-> l2.m,
         out |-> [out1 EXCEPT !.ppPlaybackDeviceInfos = a1.p,
                              !.ppCaptureDeviceInfos = a2.p],
         ctx |-> e.ctx, wrote |-> TRUE]))))))

\* ------------------------------------------------ sf_allocate_device_config
DeviceTypes == {"ma_device_type_playback", "ma_device_type_capture",
                "ma_device_type_duplex"}
Formats == {"ma_format_s16", "ma_format_f32"}
SampleRates == {44100, 48000}
\* A data callback and a device id of the caller's (opaque, non-null).
CallerCallback == Ptr(-2, 0)
CallerDeviceId == Ptr(-3, 0)

\* MA_ZERO_OBJECT(config): every field zero.  The zero share mode is
\* ma_share_mode_shared, the zero profile ma_performance_profile_low_latency.
ZeroDeviceConfig ==
    [deviceType |-> "none", sampleRate |-> 0, dataCallback |-> NULL,
     performanceProfile |-> "ma_performance_profile_low_latency",
     playback |-> [pDeviceID |-> NULL, format |-> "ma_format_unknown",
                   channels |-> 0, shareMode |-> "ma_share_mode_shared"],
     capture |-> [pDeviceID |-> NULL, format |-> "ma_format_unknown",
                  channels |-> 0, shareMode |-> "ma_share_mode_shared"],
     wasapi |-> [noAutoConvertSRC |-> FALSE]]

\* ma_device_config_init(deviceType): a zeroed config with its type set.
ma_device_config_init(deviceType) ==
    [ZeroDeviceConfig EXCEPT !.deviceType = deviceType]

\* The assignments with the capture format and channels left out.
ConfigureDevice_PlaybackOnly(c0, a) ==
    [c0 EXCEPT !.dataCallback = a.dataCallback,
               !.sampleRate = a.sampleRate,
               !.playback.format = a.format,
               !.playback.channels = a.channels,
               !.capture.shareMode = "ma_share_mode_shared",
               !.playback.pDeviceID = a.playbackDeviceId,
               !.capture.pDeviceID = a.captureDeviceId,
               !.performanceProfile = "ma_performance_profile_low_latency",
               !.wasapi.noAutoConvertSRC = TRUE]

\* The assignments that follow ma_device_config_init, in order.
ConfigureDevice(c0, a) ==
    LET c1 == [c0 EXCEPT !.dataCallback = a.dataCallback]
        c2 == [c1 EXCEPT !.sampleRate = a.sampleRate]
        c3 == [c2 EXCEPT !.playback.format = a.format]
        c4 == [c3 EXCEPT !.playback.channels = a.channels]
        c5 == [c4 EXCEPT !.capture.format = a.format]
        c6 == [c5 EXCEPT !.capture.channels = a.channels]
        c7 == [c6 EXCEPT !.capture.shareMode = "ma_share_mode_shared"]
        c8 == [c7 EXCEPT !.playback.pDeviceID = a.playbackDeviceId]
        c9 == [c8 EXCEPT !.capture.pDeviceID = a.captureDeviceId]
        c10 == [c9 EXCEPT !.performanceProfile =
                              "ma_performance_profile_low_latency"]
    IN [c10 EXCEPT !.wasapi.noAutoConvertSRC = TRUE]

\* The whole function: the handle (NULL when sf_create fails) and the heap.
sf_allocate_device_config(m, a) ==
    Bind(ma_malloc(m, <<ZeroDeviceConfig>>), LAMBDA r :
        IF r.p = NULL THEN r
        ELSE [m |-> [r.m EXCEPT !.heap[r.p.blk].data =
                        <<ConfigureDevice(ma_device_config_init(a.deviceType), a)>>],
              p |-> r.p])

ConfigArgs ==
    [deviceType : DeviceTypes, format : Formats, channels : 1..MaxChannels,
     sampleRate : SampleRates, dataCallback : {NULL, CallerCallback},
     playbackDeviceId : {NULL, CallerDeviceId},
     captureDeviceId : {NULL, CallerDeviceId}]

NoCfgCall == [called |-> FALSE]

\* The caller allocates a device config (it holds one at a time).
AllocateDeviceConfig ==
    /\ config = NULL
    /\ \E a \in ConfigArgs :
        \E r \in {sf_allocate_device_config(Machine(heap, avail), a)} :
           /\ heap' = r.m.heap
           /\ avail' = r.m.avail
           /\ config' = r.p
           /\ cfgCall' = [called |-> TRUE, args |-> a, availBefore |-> avail]
    /\ UNCHANGED <<enumVars, decVars>>

\* The caller releases the config it holds.
FreeConfig ==
    /\ config # NULL
    /\ heap' = sf_free(Machine(heap, avail), config).heap
    /\ config' = NULL
    /\ cfgCall' = NoCfgCall
    /\ UNCHANGED <<avail, enumVars, decVars>>

\* ------------------------------------------------------------ decoder seeks
\* Seconds are counted in ticks of 1/TicksPerSecond s.
\* round(a / b) for a >= 0, b > 0, halves away from zero.
Round(a, b) == (2 * a + b) \div (2 * b)

decoderSeekToFrame(d, frameIndex) ==
    IF frameIndex > d.totalFrames
    THEN [result |-> "OutOfRange", d |-> d]
    ELSE [result |-> "Success", d |-> [d EXCEPT !.cursor = frameIndex]]

\* The translation without the check of the sign.
decoderSeekToTime_Unchecked(d, ticks) ==
    decoderSeekToFrame(d, Round(ticks * d.outputSampleRate, TicksPerSecond))

decoderSeekToTime(d, ticks) ==
    IF ticks < 0
    THEN [result |-> "InvalidArgs", d |-> d]
    ELSE decoderSeekToFrame(d, Round(ticks * d.outputSampleRate, TicksPerSecond))

NoSeek == [op |-> "none", arg |-> 0, cursorBefore |-> 0]

DecoderSeekToTime ==
    /\ \E ticks \in (-MaxTicks)..MaxTicks :
        LET r == decoderSeekToTime(decoder, ticks)
        IN /\ decoder' = r.d
           /\ seekResult' = r.result
           /\ seek' = [op |-> "time", arg |-> ticks,
                       cursorBefore |-> decoder.cursor]
    /\ UNCHANGED <<heap, avail, enumVars, cfgVars>>

DecoderSeekToFrame ==
    /\ \E k \in 0..(TotalFrames + 1) :
        LET r == decoderSeekToFrame(decoder, k)
        IN /\ decoder' = r.d
           /\ seekResult' = r.result
           /\ seek' = [op |-> "frame", arg |-> k,
                       cursorBefore |-> decoder.cursor]
    /\ UNCHANGED <<heap, avail, enumVars, cfgVars>>

\* ------------------------------------------------------------------ actions
\* Blocks the facade allocated that are still live.
LiveFacade(h) == Cardinality({b \in 1..Len(h) : h[b].live /\ h[b].owner = "facade"})

Out == [ppPlaybackDeviceInfos |-> ppPlaybackDeviceInfos,
        ppCaptureDeviceInfos |-> ppCaptureDeviceInfos,
        pPlaybackDeviceCount |-> pPlaybackDeviceCount,
        pCaptureDeviceCount |-> pCaptureDeviceCount]

NoCall ==
    [host |-> [np |-> 0, nc |-> 0], ub |-> {}, allocd |-> {},
     freed |-> <<>>, failed |-> FALSE, wrote |-> FALSE, liveBefore |-> 0,
     ctxBuffer |-> NULL]

Init ==
    /\ heap = <<>>
    /\ avail \in 0..HeapSize
    /\ ctx = [pDeviceInfos |-> NULL, deviceInfoCapacity |-> 0,
              playbackDeviceInfoCount |-> 0, captureDeviceInfoCount |-> 0]
    /\ \E p \in {NULL, WILD} :
          /\ ppPlaybackDeviceInfos = p
          /\ ppCaptureDeviceInfos = p
    /\ pPlaybackDeviceCount = 0
    /\ pCaptureDeviceCount = 0
    /\ result = "none"
    /\ crashed = FALSE
    /\ call = NoCall
    /\ released = [p |-> FALSE, c |-> FALSE]
    /\ snapshots = {}
    /\ calls = 0
    /\ config = NULL
    /\ cfgCall = NoCfgCall
    /\ decoder = [cursor |-> 0, totalFrames |-> TotalFrames,
                  outputSampleRate |-> OutputSampleRate]
    /\ seekResult = "none"
    /\ seek = NoSeek

\* The ids behind the entries of a returned array, as the caller reads them
\* when the call returns.
IdValue(h, p) ==
    IF p.blk \in 1..Len(h) /\ h[p.blk].live
       /\ p.off + 1 \in 1..Len(h[p.blk].data)
    THEN h[p.blk].data[p.off + 1].id
    ELSE -1

IdsOf(h, arr) == [i \in 1..Len(h[arr.blk].data) |-> IdValue(h, h[arr.blk].data[i].id)]

NewSnapshots(r) ==
    IF r.result = MA_SUCCESS /\ r.wrote
    THEN {[arr |-> a.blk, ids |-> IdsOf(r.m.heap, a)] :
            a \in {r.out.ppPlaybackDeviceInfos, r.out.ppCaptureDeviceInfos} \ {NULL}}
    ELSE {}

\* The caller calls sf_get_devices.  A fault the call executes either kills
\* the process (trap) or goes unnoticed and the call runs on.
GetDevices ==
    /\ ~crashed
    /\ calls < MaxCalls
    /\ calls' = calls + 1
    /\ UNCHANGED <<cfgVars, decVars>>
    /\ \E topo \in HostTopologies, ok \in BOOLEAN, indet \in IndetChoices :
       \E r \in {sf_get_devices(Machine(heap, avail), ctx, Out, topo, ok, indet)} :
       \E rec \in {[host |-> topo, ub |-> r.m.ub, allocd |-> r.m.allocd,
                    freed |-> r.m.freed, failed |-> r.m.failed,
                    wrote |-> r.wrote, liveBefore |-> LiveFacade(heap),
                    ctxBuffer |-> r.ctx.pDeviceInfos]} :
       \E fault \in {"trap", "continue"} :
           IF r.m.ub # {} /\ fault = "trap"
           THEN /\ crashed' = TRUE
                /\ result' = "none"
                /\ call' = rec
                /\ UNCHANGED <<heap, avail, ctx, ppPlaybackDeviceInfos,
                               ppCaptureDeviceInfos, pPlaybackDeviceCount,
                               pCaptureDeviceCount, released, snapshots>>
           ELSE /\ heap' = r.m.heap
                /\ avail' = r.m.avail
                /\ ctx' = r.ctx
                /\ ppPlaybackDeviceInfos' = r.out.ppPlaybackDeviceInfos
                /\ ppCaptureDeviceInfos' = r.out.ppCaptureDeviceInfos
                /\ pPlaybackDeviceCount' = r.out.pPlaybackDeviceCount
                /\ pCaptureDeviceCount' = r.out.pCaptureDeviceCount
                /\ result' = r.result
                /\ call' = rec
                /\ released' = [p |-> FALSE, c |-> FALSE]
                /\ snapshots' = snapshots \cup NewSnapshots(r)
                /\ UNCHANGED crashed

\* The caller releases a returned array with sf_free, once, when the last
\* call succeeded and reported entries for it.
FreePlaybackInfos ==
    /\ ~crashed /\ result = MA_SUCCESS /\ call.wrote
    /\ pPlaybackDeviceCount > 0 /\ ~released.p
    /\ heap' = sf_free(Machine(heap, avail), ppPlaybackDeviceInfos).heap
    /\ released' = [released EXCEPT !.p = TRUE]
    /\ snapshots' = {s \in snapshots : s.arr # ppPlaybackDeviceInfos.blk}
    /\ UNCHANGED <<avail, ctx, ppPlaybackDeviceInfos, ppCaptureDeviceInfos,
                   pPlaybackDeviceCount, pCaptureDeviceCount, result, crashed,
                   call, calls, cfgVars, decVars>>

FreeCaptureInfos ==
    /\ ~crashed /\ result = MA_SUCCESS /\ call.wrote
    /\ pCaptureDeviceCount > 0 /\ ~released.c
    /\ heap' = sf_free(Machine(heap, avail), ppCaptureDeviceInfos).heap
    /\ released' = [released EXCEPT !.c = TRUE]
    /\ snapshots' = {s \in snapshots : s.arr # ppCaptureDeviceInfos.blk}
    /\ UNCHANGED <<avail, ctx, ppPlaybackDeviceInfos, ppCaptureDeviceInfos,
                   pPlaybackDeviceCount, pCaptureDeviceCount, result, crashed,
                   call, calls, cfgVars, decVars>>

Next == GetDevices \/ FreePlaybackInfos \/ FreeCaptureInfos

Spec == Init /\ [][Next]_vars

NextConfig == AllocateDeviceConfig \/ FreeConfig

SpecConfig == Init /\ [][NextConfig]_vars

NextSeek == DecoderSeekToTime \/ DecoderSeekToFrame

SpecSeek == Init /\ [][NextSeek]_vars

\* The first call alone: one enumeration and the release of its arrays.
GetDevicesFirst == calls = 0 /\ GetDevices

NextOnce == GetDevicesFirst \/ FreePlaybackInfos \/ FreeCaptureInfos

SpecOnce == Init /\ [][NextOnce]_vars

\* ------------------------------------------------------------ observations
\* The last call returned MA_SUCCESS to the caller.
ReturnedSuccess == calls > 0 /\ ~crashed /\ result = MA_SUCCESS

\* The array the caller holds for a direction after a successful call, while
\* it reports entries and has not been released.
Holds(dir) ==
    /\ ReturnedSuccess
    /\ IF dir = "playback" THEN pPlaybackDeviceCount > 0 /\ ~released.p
                           ELSE pCaptureDeviceCount > 0 /\ ~released.c

ArrayPtr(dir) ==
    IF dir = "playback" THEN ppPlaybackDeviceInfos ELSE ppCaptureDeviceInfos

CountOut(dir) ==
    IF dir = "playback" THEN pPlaybackDeviceCount ELSE pCaptureDeviceCount

Readable(p) == p.blk \in 1..Len(heap) /\ heap[p.blk].live /\ p.off = 0

Entries(dir) == IF Readable(ArrayPtr(dir)) THEN heap[ArrayPtr(dir).blk].data ELSE <<>>

Directions == {"playback", "capture"}

\* --------------------------------------------------------------------- C1
\* C1: after a successful sf_get_devices, once the caller has released each
\* returned array with one sf_free, the number of live blocks the facade
\* allocated is back to its value before the call.
C1_ReleaseRestoresBaseline ==
    (ReturnedSuccess
        /\ (pPlaybackDeviceCount > 0 => released.p)
        /\ (pCaptureDeviceCount > 0 => released.c))
    => LiveFacade(heap) = call.liveBefore

\* --------------------------------------------------------------------- C2
\* C2: the id of every entry of an array the caller still holds reads the
\* same as when the call returned, across later sf_get_devices calls (here:
\* later calls that free nothing and execute no fault, so that a change can
\* only come from the enumeration itself).
C2_IdsStable ==
    (call.freed = <<>> /\ call.ub = {})
    => \A s \in snapshots : IdsOf(heap, Ptr(s.arr, 0)) = s.ids

\* --------------------------------------------------------------------- C3
\* C3: when an allocation made by sf_get_devices fails, the call does not
\* write through the null pointer, and what it returns is MA_OUT_OF_MEMORY.
C3_AllocFailureReturnsOom ==
    (calls > 0 /\ call.failed)
    => /\ "null_write" \notin call.ub
       /\ (~crashed => result = MA_OUT_OF_MEMORY)

\* --------------------------------------------------------------------- C4
\* The name field holds a terminated string within its MA_MAX_DEVICE_NAME_LENGTH + 1
\* bytes that is the engine's name cut to MA_MAX_DEVICE_NAME_LENGTH bytes.
NameOk(name, engineName) ==
    LET want == CStr(engineName)
    IN /\ Len(name) = MA_MAX_DEVICE_NAME_LENGTH + 1
       /\ FirstNul(name) <= MA_MAX_DEVICE_NAME_LENGTH + 1
       /\ CStr(name) = IF Len(want) > MA_MAX_DEVICE_NAME_LENGTH
                       THEN SubSeq(want, 1, MA_MAX_DEVICE_NAME_LENGTH)
                       ELSE want

\* C4: every returned entry's name is NUL-terminated inside its 256 bytes,
\* equals the engine's device name truncated to 255 bytes, and the copy
\* wrote nothing past the field.
C4_NamesTerminated ==
    \A dir \in Directions :
        Holds(dir) =>
            \A i \in 1..Len(Entries(dir)) :
                NameOk(Entries(dir)[i].name, HostDevices[dir][i].name)

\* A held array has an entry whose engine name has the greatest length.
C4_Witness ==
    \E dir \in Directions :
        /\ Holds(dir)
        /\ \E i \in 1..Len(Entries(dir)) :
              Len(CStr(HostDevices[dir][i].name)) = MA_MAX_DEVICE_NAME_LENGTH

\* --------------------------------------------------------------------- C5
FormatsOf(e) ==
    IF Readable(e.nativeDataFormats) THEN heap[e.nativeDataFormats.blk].data
    ELSE <<>>

EntryMatches(e, dev) ==
    /\ e.isDefault = dev.isDefault
    /\ e.nativeDataFormatCount = dev.nativeDataFormatCount
    /\ \A j \in 1..e.nativeDataFormatCount :
          /\ j <= Len(FormatsOf(e))
          /\ FormatsOf(e)[j] = dev.nativeDataFormats[j]

\* C5: on success each returned array has as many entries as its count, and
\* entry i carries isDefault, nativeDataFormatCount and the native formats of
\* the engine's i-th device of the same direction.
C5_EntriesMatchEngine ==
    \A dir \in Directions :
        Holds(dir) =>
            /\ Len(Entries(dir)) = CountOut(dir)
            /\ CountOut(dir) = (IF dir = "playback" THEN call.host.np
                                                    ELSE call.host.nc)
            /\ \A i \in 1..Len(Entries(dir)) :
                  EntryMatches(Entries(dir)[i], HostDevices[dir][i])

\* --------------------------------------------------------------------- C6
\* C6: decoderSeekToTime with negative seconds returns InvalidArgs and leaves
\* the cursor where it was; with seconds >= 0 its outcome is that of
\* decoderSeekToFrame at the frame nearest to seconds x outputSampleRate
\* (halves rounded up).
C6_SeekToTime ==
    seek.op = "time" =>
        IF seek.arg < 0
        THEN seekResult = "InvalidArgs" /\ decoder.cursor = seek.cursorBefore
        ELSE \E f \in 0..(MaxTicks * decoder.outputSampleRate) :
                /\ 2 * (TicksPerSecond * f - seek.arg * decoder.outputSampleRate)
                      <= TicksPerSecond
                /\ 2 * (TicksPerSecond * f - seek.arg * decoder.outputSampleRate)
                      > -TicksPerSecond
                /\ LET r == decoderSeekToFrame(
                                [decoder EXCEPT !.cursor = seek.cursorBefore], f)
                   IN seekResult = r.result /\ decoder = r.d

\* A negative seek time was rejected with the cursor away from the start.
C6_Witness ==
    /\ seek.op = "time" /\ seek.arg < 0
    /\ seekResult = "InvalidArgs" /\ decoder.cursor > 0

C8_FailureFreesOnlyOwn ==
    (calls > 0 /\ ~crashed /\ result # MA_SUCCESS)
    => /\ \A k \in 1..Len(call.freed) :
             \/ call.freed[k] = NULL
             \/ /\ call.freed[k].off = 0
                /\ call.freed[k].blk \in call.allocd
                /\ \A l \in 1..Len(call.freed) :
                      call.freed[l] = call.freed[k] => l = k
       /\ \A b \in call.allocd : ~heap[b].live
       /\ (ctx.pDeviceInfos # NULL => Readable(ctx.pDeviceInfos))

\* --------------------------------------------------------------------- C9
\* C9: in every returned entry nativeDataFormats is an array the call
\* allocated, of nativeDataFormatCount entries, when the count is positive,
\* and is NULL when the count is 0.
C9_FormatsPointerDetermined ==
    \A dir \in Directions :
        Holds(dir) =>
            \A i \in 1..Len(Entries(dir)) :
                LET e == Entries(dir)[i]
                IN IF e.nativeDataFormatCount > 0
                   THEN /\ Readable(e.nativeDataFormats)
                        /\ e.nativeDataFormats.blk \in call.allocd
                        /\ Len(FormatsOf(e)) = e.nativeDataFormatCount
                   ELSE e.nativeDataFormats = NULL

\* -------------------------------------------------------------------- C10
\* C10: after a successful call each array output is NULL exactly when its
\* count is 0; after a failed call that wrote no array output, both counts
\* are 0.
C10_OutputsConsistent ==
    (calls > 0 /\ ~crashed) =>
        /\ result = MA_SUCCESS =>
              /\ (ppPlaybackDeviceInfos = NULL) <=> (pPlaybackDeviceCount = 0)
              /\ (ppCaptureDeviceInfos = NULL) <=> (pCaptureDeviceCount = 0)
        /\ (result # MA_SUCCESS /\ ~call.wrote) =>
              /\ pPlaybackDeviceCount = 0
              /\ pCaptureDeviceCount = 0

====
